---------------------------- MODULE Spec2Model ----------------------------
(***************************************************************************)
(* The BigQuery agent of flytekit (plugins/flytekit-bigquery, agent.py):   *)
(* create / get / delete against a BigQuery backend, with the resource     *)
(* token carried by the caller.  Byte strings are sequences of 0..255,     *)
(* text is a sequence of code points (ASCII only, so one byte each).       *)
(* BuildSpec is the `pyflyte build` command of clis/sdk_in_container/      *)
(* build.py, a separate program over the variable cli.                     *)
(***************************************************************************)
EXTENDS Integers, Sequences, FiniteSets, TLC

(* ------------------------------ bounds --------------------------------- *)
\* number of job identifiers the backend can hand out
NumJobIds == 2
\* longest declared input interface of a task template
MaxInputs == 2

(* --------------------------- small helpers ----------------------------- *)
None == [t |-> "None"]

SubSeqFrom(s, i) == IF i > Len(s) THEN <<>> ELSE SubSeq(s, i, Len(s))

\* the text "job_id", the one field of Metadata
JOB_ID == <<106, 111, 98, 95, 105, 100>>

StrV(s) == [t |-> "str", v |-> s]
IntV(n) == [t |-> "int", v |-> n]
\* a dict, as its sequence of <<key, value>> items in insertion order
DictV(items) == [t |-> "dict", v |-> items]

Raise(e) == [ok |-> FALSE, error |-> e]
Return(v) == [ok |-> TRUE, value |-> v]

\* a dict's items with one more item in front; a key that comes again later
\* keeps the later value
PutFirst(key, val, items) ==
    IF \E j \in 1..Len(items) : items[j][1] = key THEN items
    ELSE << <<key, val>> >> \o items

(* ------------------- Metadata and its msgpack encoding ----------------- *)
\* @dataclass Metadata: one field, job_id
Metadata(job_id) == [job_id |-> job_id]

\* asdict(Metadata(...))
asdict(m) == DictV(<< <<StrV(JOB_ID), m.job_id>> >>)

\* msgpack's encoding of a text: fixstr below 32 bytes, str8 below 256,
\* str16 beyond
PackStr(s) ==
    IF Len(s) <= 31 THEN <<160 + Len(s)>> \o s
    ELSE IF Len(s) <= 255 THEN <<217, Len(s)>> \o s
    ELSE <<218, Len(s) \div 256, Len(s) % 256>> \o s

PackValue(x) ==
    CASE x.t = "str" -> PackStr(x.v)
      [] x.t = "int" -> <<x.v>>
      [] OTHER -> <<192>>

RECURSIVE PackItems(_)
PackItems(items) ==
    IF items = <<>> THEN <<>>
    ELSE PackValue(items[1][1]) \o PackValue(items[1][2]) \o PackItems(Tail(items))

\* msgpack.packb of a dict of at most 15 items whose keys and values are
\* texts or small non-negative integers
packb(d) == <<128 + Len(d.v)>> \o PackItems(d.v)

\* msgpack.unpackb reads one object at position i: [ok, val, next]
RECURSIVE UnpackAt(_, _), UnpackItems(_, _, _)
UnpackAt(b, i) ==
    IF i > Len(b) THEN [ok |-> FALSE, error |-> "ValueError"]
    ELSE LET c == b[i] IN
      CASE c <= 127 -> [ok |-> TRUE, val |-> IntV(c), next |-> i + 1]
        [] c >= 128 /\ c <= 143 -> UnpackItems(b, i + 1, c - 128)
        [] c >= 160 /\ c <= 191 ->
             IF i + (c - 160) > Len(b) THEN [ok |-> FALSE, error |-> "ValueError"]
             ELSE [ok |-> TRUE, val |-> StrV(SubSeq(b, i + 1, i + (c - 160))),
                   next |-> i + 1 + (c - 160)]
        [] c = 217 ->
             IF i + 1 > Len(b) \/ i + 1 + b[i + 1] > Len(b)
             THEN [ok |-> FALSE, error |-> "ValueError"]
             ELSE [ok |-> TRUE, val |-> StrV(SubSeq(b, i + 2, i + 1 + b[i + 1])),
                   next |-> i + 2 + b[i + 1]]
        [] c = 218 ->
             IF i + 2 > Len(b) \/ i + 2 + (b[i + 1] * 256 + b[i + 2]) > Len(b)
             THEN [ok |-> FALSE, error |-> "ValueError"]
             ELSE [ok |-> TRUE,
                   val |-> StrV(SubSeq(b, i + 3, i + 2 + (b[i + 1] * 256 + b[i + 2]))),
                   next |-> i + 3 + (b[i + 1] * 256 + b[i + 2])]
        [] c = 192 -> [ok |-> TRUE, val |-> None, next |-> i + 1]
        [] OTHER -> [ok |-> FALSE, error |-> "FormatError"]

\* the n key/value pairs of a map; a key that is no text is refused
\* (strict_map_key); a repeated key keeps its last value, as a dict does
UnpackItems(b, i, n) ==
    IF n = 0 THEN [ok |-> TRUE, val |-> DictV(<<>>), next |-> i]
    ELSE LET k == UnpackAt(b, i) IN
      IF ~k.ok THEN k
      ELSE IF k.val.t # "str" THEN [ok |-> FALSE, error |-> "ValueError"]
      ELSE LET v == UnpackAt(b, k.next) IN
        IF ~v.ok THEN v
        ELSE LET rest == UnpackItems(b, v.next, n - 1) IN
          IF ~rest.ok THEN rest
          ELSE [rest EXCEPT !.val = DictV(PutFirst(k.val, v.val, rest.val.v))]

\* msgpack.unpackb: the whole input is one object, no bytes left over
unpackb(b) ==
    LET r == UnpackAt(b, 1) IN
      IF ~r.ok THEN Raise(r.error)
      ELSE IF r.next # Len(b) + 1 THEN Raise("ExtraData")
      ELSE Return(r.val)

\* Metadata(**x): x must be a mapping holding exactly the keyword job_id
MetadataFromKwargs(x) ==
    IF x.t # "dict" THEN Raise("TypeError")
    ELSE IF Len(x.v) = 1 /\ x.v[1][1] = StrV(JOB_ID) THEN Return(Metadata(x.v[1][2]))
    ELSE Raise("TypeError")

(* ----------------------- UTF-8 and JSON (delete) ----------------------- *)
Cont(b, i) == i <= Len(b) /\ b[i] >= 128 /\ b[i] <= 191

\* the least member of a non-empty set of positions, 0 for the empty set
First(S) == IF S = {} THEN 0 ELSE CHOOSE j \in S : \A q \in S : j <= q

\* the length of the UTF-8 sequence a lead byte above 127 opens, 0 for a
\* byte that opens none
Utf8Len(c) ==
    CASE c >= 194 /\ c <= 223 -> 2
      [] c >= 224 /\ c <= 239 -> 3
      [] c >= 240 /\ c <= 244 -> 4
      [] OTHER -> 0

Utf8WellFormed(b, p, c, n) ==
    /\ n > 0
    /\ \A j \in 1..(n - 1) : Cont(b, p + j)
    /\ (c = 224 => b[p + 1] >= 160)
    /\ (c = 237 => b[p + 1] <= 159)
    /\ (c = 240 => b[p + 1] >= 144)
    /\ (c = 244 => b[p + 1] <= 143)

Utf8CodePoint(b, p, c, n) ==
    CASE n = 2 -> (c - 192) * 64 + (b[p + 1] - 128)
      [] n = 3 -> (c - 224) * 4096 + (b[p + 1] - 128) * 64 + (b[p + 2] - 128)
      [] OTHER -> (c - 240) * 262144 + (b[p + 1] - 128) * 4096
                    + (b[p + 2] - 128) * 64 + (b[p + 3] - 128)

Utf8Join(head, rest) == IF ~rest.ok THEN rest ELSE Return(head \o rest.value)

\* bytes.decode("utf-8"): the code points of b from position i on, or
\* UnicodeDecodeError.  A run of ASCII bytes is taken as it is; p is the
\* first byte above 127 from i on (0: none).
RECURSIVE Utf8From(_, _)
Utf8At(b, i, p, n) ==
    IF p = 0 THEN Return(SubSeqFrom(b, i))
    ELSE IF ~Utf8WellFormed(b, p, b[p], n) THEN Raise("UnicodeDecodeError")
    ELSE Utf8Join(SubSeq(b, i, p - 1) \o <<Utf8CodePoint(b, p, b[p], n)>>,
                  Utf8From(b, p + n))

Utf8Scan(b, i, p) == Utf8At(b, i, p, IF p = 0 THEN 0 ELSE Utf8Len(b[p]))

Utf8From(b, i) == Utf8Scan(b, i, First({j \in i..Len(b) : b[j] > 127}))

utf8_decode(b) == Utf8From(b, 1)

JsonFail == [ok |-> FALSE, error |-> "JSONDecodeError"]

RECURSIVE SkipWs(_, _)
SkipWs(t, i) ==
    IF i <= Len(t) /\ t[i] \in {32, 9, 10, 13} THEN SkipWs(t, i + 1) ELSE i

JsonJoin(head, r) == IF ~r.ok THEN r ELSE [r EXCEPT !.val = head \o r.val]

\* the characters of a JSON text after its opening quote, up to the closing
\* one; the escapes \" and \\ are read, a control character is refused.
\* p is the first quote, backslash or control character from i on (0: none).
RECURSIVE JsonChars(_, _)
JsonCharsAt(t, i, p) ==
    IF p = 0 THEN JsonFail
    ELSE IF t[p] = 34 THEN [ok |-> TRUE, val |-> SubSeq(t, i, p - 1), next |-> p + 1]
    ELSE IF t[p] = 92 /\ p + 1 <= Len(t) /\ t[p + 1] \in {34, 92}
    THEN JsonJoin(SubSeq(t, i, p - 1) \o <<t[p + 1]>>, JsonChars(t, p + 2))
    ELSE JsonFail

JsonChars(t, i) ==
    JsonCharsAt(t, i, First({j \in i..Len(t) : t[j] \in {34, 92} \/ t[j] < 32}))

RECURSIVE JsonDigits(_, _)
JsonDigits(t, i) ==
    IF i <= Len(t) /\ t[i] >= 48 /\ t[i] <= 57 THEN JsonDigits(t, i + 1) ELSE i

RECURSIVE JsonNumber(_, _, _)
JsonNumber(t, i, j) ==
    IF i >= j THEN 0 ELSE JsonNumber(t, i, j - 1) * 10 + (t[j - 1] - 48)

\* a JSON scalar at position i (no white space before it): a text, a
\* non-negative integer or null: [ok, val, next]
JsonScalarAt(t, i) ==
    IF i > Len(t) THEN JsonFail
    ELSE LET c == t[i] IN
      CASE c = 34 ->
             LET r == JsonChars(t, i + 1) IN
             IF ~r.ok THEN r ELSE [r EXCEPT !.val = StrV(r.val)]
        [] c >= 49 /\ c <= 57 ->
             LET j == JsonDigits(t, i) IN
             [ok |-> TRUE, val |-> IntV(JsonNumber(t, i, j)), next |-> j]
        [] c = 48 -> [ok |-> TRUE, val |-> IntV(0), next |-> i + 1]
        [] c = 110 ->
             IF i + 3 <= Len(t) /\ SubSeq(t, i, i + 3) = <<110, 117, 108, 108>>
             THEN [ok |-> TRUE, val |-> None, next |-> i + 4]
             ELSE JsonFail
        [] OTHER -> JsonFail

\* "key": scalar pairs from position i up to the closing brace.  The
\* objects read hold scalars only: a nested object or array is not among
\* the byte strings tried.
RECURSIVE JsonMembers(_, _)

\* after a member k: v, at position e: a closing brace or a comma
JsonAfterMember(t, k, v, e) ==
    IF e > Len(t) THEN JsonFail
    ELSE IF t[e] = 125
         THEN [ok |-> TRUE, val |-> DictV(<< <<StrV(k.val), v.val>> >>), next |-> e + 1]
    ELSE IF t[e] # 44 THEN JsonFail
    ELSE LET rest == JsonMembers(t, SkipWs(t, e + 1)) IN
         IF ~rest.ok THEN rest
         ELSE [rest EXCEPT !.val = DictV(PutFirst(StrV(k.val), v.val, rest.val.v))]

JsonAfterValue(t, k, v) ==
    IF ~v.ok THEN v ELSE JsonAfterMember(t, k, v, SkipWs(t, v.next))

\* after the key k, at position c: a colon and the value
JsonAfterKey(t, k, c) ==
    IF c > Len(t) \/ t[c] # 58 THEN JsonFail
    ELSE JsonAfterValue(t, k, JsonScalarAt(t, SkipWs(t, c + 1)))

JsonKey(t, k) ==
    IF ~k.ok THEN k ELSE JsonAfterKey(t, k, SkipWs(t, k.next))

JsonMembers(t, i) ==
    IF i > Len(t) \/ t[i] # 34 THEN JsonFail ELSE JsonKey(t, JsonChars(t, i + 1))

\* json.loads reads one value at position i: an object or a scalar
JsonAt(t, i0) ==
    LET i == SkipWs(t, i0) IN
    IF i <= Len(t) /\ t[i] = 123
    THEN LET j == SkipWs(t, i + 1) IN
         IF j <= Len(t) /\ t[j] = 125
         THEN [ok |-> TRUE, val |-> DictV(<<>>), next |-> j + 1]
         ELSE JsonMembers(t, j)
    ELSE JsonScalarAt(t, i)

\* json.loads: one value, then only white space
json_loads(t) ==
    LET r == JsonAt(t, 1) IN
      IF ~r.ok THEN Raise(r.error)
      ELSE IF SkipWs(t, r.next) # Len(t) + 1 THEN Raise("JSONDecodeError")
      ELSE Return(r.val)

\* the JSON text of a dict of texts, as a caller could write it
RECURSIVE JsonDumpItems(_)
JsonDumpItems(items) ==
    IF items = <<>> THEN <<>>
    ELSE <<34>> \o items[1][1].v \o <<34, 58, 32, 34>> \o items[1][2].v \o <<34>>
         \o (IF Len(items) > 1 THEN <<44, 32>> ELSE <<>>) \o JsonDumpItems(Tail(items))

JsonText(d) == <<123>> \o JsonDumpItems(d.v) \o <<125>>

(* ------------------------------ backend -------------------------------- *)
\* the identifiers the backend hands out; the even ones are longer than a
\* msgpack fixstr holds
JobIdStr(k) ==
    IF k % 2 = 0 THEN [i \in 1..(31 + k) |-> 96 + k] ELSE [i \in 1..k |-> 96 + k]

JobIds == 1..NumJobIds

\* the statuses the backend documents, and one it does not
BackendStatusDomain == {"PENDING", "RUNNING", "DONE", "FAILED"}
BackendStatuses == BackendStatusDomain \cup {"UNKNOWN_EXOTIC"}
BackendTerminal == {"DONE", "FAILED"}

\* cancel_requested: a cancellation is pending on the job
NoJob == [exists |-> FALSE, state |-> "PENDING", has_destination |-> FALSE,
          cancel_requested |-> FALSE]

\* the table a query job writes to
Destination(k) ==
    [project |-> <<112>>, dataset_id |-> <<100>>, table_id |-> <<116, 48 + k>>]

\* the agent processes: the one that serves a call first, and a second one
\* (a restarted process or another replica) that serves a repeat of it
Replicas == {"serving", "restarted"}

\* what BigQueryAgent.__init__ leaves in the instance, lines 36-38
BigQueryAgent == [task_type |-> "bigquery_query_job_task"]

VARIABLES jobs,      \* the backend's jobs, by identifier index
          issued,    \* the tokens create has returned, with the job of each
          observed,  \* per job, the terminal state a get has returned for
                     \* the token create returns for that job
          last,      \* the agent call being answered: operation, argument,
                     \* backend calls made, outcome, the replica that served
                     \* it, and in prior the outcome of the call it repeats;
                     \* Idle between calls
          agents,    \* the attributes of the agent instance of each replica
          registry,  \* the process-wide table of agents, by task type
          cli        \* the pyflyte build invocation: where it stands, the click
                     \* context and what was serialized
vars == <<jobs, issued, observed, last, agents, registry, cli>>

\* a lookup that forgets the identifier and answers with the job submitted
\* last
LookupLatest(job_id) ==
    {k \in JobIds : jobs[k].exists /\ \A j \in JobIds : jobs[j].exists => j <= k}

\* client.get_job / client.cancel_job look a job up by its identifier
Lookup(job_id) ==
    {k \in JobIds : jobs[k].exists /\ job_id.t = "str" /\ job_id.v = JobIdStr(k)}

\* a get_job that falls back on some job the backend has when it has none
\* of that identifier
get_job_substituting(job_id) ==
    IF Lookup(job_id) # {} THEN Return(CHOOSE k \in Lookup(job_id) : TRUE)
    ELSE IF \E k \in JobIds : jobs[k].exists
         THEN Return(CHOOSE k \in JobIds : jobs[k].exists)
         ELSE Raise("NotFound")

\* client.get_job(metadata.job_id), line 72: the job, or NotFound
get_job(job_id) ==
    IF Lookup(job_id) = {} THEN Raise("NotFound")
    ELSE Return(CHOOSE k \in Lookup(job_id) : TRUE)

(* --------------------------- state translator -------------------------- *)
SUCCEEDED == "SUCCEEDED"

\* convert_to_flyte_state: a lookup table, anything else is RUNNING
convert_to_flyte_state(state) ==
    CASE state = "PENDING" -> "QUEUED"
      [] state = "RUNNING" -> "RUNNING"
      [] state = "DONE" -> SUCCEEDED
      [] state = "FAILED" -> "FAILED"
      [] OTHER -> "RUNNING"

(* ------------------------------ type bridge ---------------------------- *)
pythonTypeToBigQueryType ==
    [t \in {"list", "bool", "bytes", "datetime.datetime", "float", "int", "str"} |->
        CASE t = "list" -> "ARRAY"
          [] t = "bool" -> "BOOL"
          [] t = "bytes" -> "BYTES"
          [] t = "datetime.datetime" -> "DATETIME"
          [] t = "float" -> "FLOAT64"
          [] t = "int" -> "INT64"
          [] OTHER -> "STRING"]

\* the literal types the interfaces tried declare: one with a BigQuery
\* type, one without
LiteralTypes == {"INTEGER", "STRUCT"}

\* TypeEngine.guess_python_type
guess_python_type(lt) ==
    CASE lt = "INTEGER" -> "int"
      [] lt = "STRING" -> "str"
      [] OTHER -> "dict"

\* a comprehension that takes STRING for a type without an entry
RECURSIVE query_parameters_defaulting(_, _)
query_parameters_defaulting(types, i) ==
    IF i > Len(types) THEN Return(<<>>)
    ELSE LET rest == query_parameters_defaulting(types, i + 1) IN
         Return(<<[name |-> i,
                   type_ |-> IF types[i] \in DOMAIN pythonTypeToBigQueryType
                             THEN pythonTypeToBigQueryType[types[i]] ELSE "STRING"]>>
                \o rest.value)

\* the list comprehension of create: one ScalarQueryParameter per input, in
\* order; the first type without an entry in the table raises KeyError
RECURSIVE query_parameters(_, _)
query_parameters(types, i) ==
    IF i > Len(types) THEN Return(<<>>)
    ELSE IF types[i] \notin DOMAIN pythonTypeToBigQueryType THEN Raise("KeyError")
    ELSE LET rest == query_parameters(types, i + 1) IN
         IF ~rest.ok THEN rest
         ELSE Return(<<[name |-> i, type_ |-> pythonTypeToBigQueryType[types[i]]]>>
                     \o rest.value)

\* lines 47-61 of create: job_config is None without inputs
job_config(hasInputs, interface) ==
    IF ~hasInputs THEN Return(None)
    ELSE LET python_interface_inputs ==
                 [i \in 1..Len(interface) |-> guess_python_type(interface[i])]
             ps == query_parameters(python_interface_inputs, 1)
         IN IF ~ps.ok THEN ps
            ELSE Return([t |-> "QueryJobConfig", query_parameters |-> ps.value])

(* -------------------------------- tokens ------------------------------- *)
\* what create returns for job k: line 67
resource_meta_of(k) == packb(asdict(Metadata(StrV(JobIdStr(k)))))

\* the same record written as JSON text
JsonTokenOf(k) == JsonText(asdict(Metadata(StrV(JobIdStr(k)))))

\* byte strings no create returns: empty, a reserved msgpack byte, an empty
\* map, an integer, a truncated token, a token with a trailing byte, a map
\* with a second field, an empty JSON object, a JSON text
Garbage ==
    { <<>>, <<193>>, <<128>>, <<5>>,
      SubSeq(resource_meta_of(1), 1, Len(resource_meta_of(1)) - 1),
      resource_meta_of(1) \o <<0>>,
      packb(DictV(<< <<StrV(JOB_ID), StrV(JobIdStr(1))>>, <<StrV(<<120>>), IntV(1)>> >>)),
      <<123, 125>>, <<34, 97, 34>> }

\* the byte strings callers pass to get and delete
Tokens == {resource_meta_of(k) : k \in JobIds} \cup {JsonTokenOf(k) : k \in JobIds}
            \cup Garbage

(* -------------------------------- create ------------------------------- *)
\* the template interfaces tried: up to MaxInputs declared inputs
Interfaces == UNION {[1..n -> LiteralTypes] : n \in 0..MaxInputs}

\* the backend's own error details on a refused submission
SubmitErrors == {"BadRequest", "Forbidden"}

FreeIds == {k \in JobIds : ~jobs[k].exists}

\* a submission that asks the backend a second time when it is refused
submit_retrying(cfg, refusal, hasDest) ==
    LET calls == << [op |-> "Client"], [op |-> "query", job_config |-> cfg] >> IN
    IF refusal # "None"
    THEN [result |-> Raise(refusal), at |-> 65,
          backend |-> calls \o << [op |-> "query", job_config |-> cfg] >>,
          jobs |-> jobs, issued |-> issued]
    ELSE LET k == First(FreeIds)
             meta == packb(asdict(Metadata(StrV(JobIdStr(k)))))
         IN [result |-> Return([resource_meta |-> meta]), at |-> 0,
             backend |-> calls,
             jobs |-> [jobs EXCEPT ![k] =
                         [exists |-> TRUE, state |-> "PENDING",
                          has_destination |-> hasDest, cancel_requested |-> FALSE]],
             issued |-> issued \cup {[resource_meta |-> meta, job |-> k]}]

\* lines 63-67 of create, after job_config: one client, one client.query.
\* refusal is the error client.query raises, "None" when the backend accepts
\* the job; hasDest is whether the job gets a destination.  The backend
\* hands out the next unused identifier.
submit(cfg, refusal, hasDest) ==
    LET calls == << [op |-> "Client"], [op |-> "query", job_config |-> cfg] >> IN
    IF refusal # "None"
    THEN [result |-> Raise(refusal), at |-> 65, backend |-> calls,
          jobs |-> jobs, issued |-> issued]
    ELSE LET k == First(FreeIds)
             meta == packb(asdict(Metadata(StrV(JobIdStr(k)))))
         IN [result |-> Return([resource_meta |-> meta]), at |-> 0,
             backend |-> calls,
             jobs |-> [jobs EXCEPT ![k] =
                         [exists |-> TRUE, state |-> "PENDING",
                          has_destination |-> hasDest, cancel_requested |-> FALSE]],
             issued |-> issued \cup {[resource_meta |-> meta, job |-> k]}]

\* a create that answers with the token of a job submitted earlier instead
\* of submitting again
create_deduplicating(hasInputs, interface, refusal, hasDest) ==
    LET cfg == job_config(hasInputs, interface) IN
    IF ~cfg.ok
    THEN [result |-> cfg, at |-> 58, backend |-> <<>>, jobs |-> jobs, issued |-> issued]
    ELSE IF refusal = "None" /\ issued # {}
    THEN [result |-> Return([resource_meta |-> (CHOOSE i \in issued : TRUE).resource_meta]),
          at |-> 0, backend |-> <<>>, jobs |-> jobs, issued |-> issued]
    ELSE submit(cfg.value, refusal, hasDest)

\* create, lines 40-67
create(hasInputs, interface, refusal, hasDest) ==
    LET cfg == job_config(hasInputs, interface) IN
    IF ~cfg.ok
    THEN [result |-> cfg, at |-> 58, backend |-> <<>>, jobs |-> jobs, issued |-> issued]
    ELSE submit(cfg.value, refusal, hasDest)

(* --------------------------------- get --------------------------------- *)
\* a get that reads the token as delete does, as JSON text
get_metadata_json(resource_meta) ==
    LET text == utf8_decode(resource_meta) IN
    IF ~text.ok THEN text
    ELSE LET x == json_loads(text.value) IN
         IF ~x.ok THEN x ELSE MetadataFromKwargs(x.value)

\* line 71: Metadata(**msgpack.unpackb(resource_meta))
get_metadata(resource_meta) ==
    LET x == unpackb(resource_meta) IN
    IF ~x.ok THEN x ELSE MetadataFromKwargs(x.value)

\* a locator with project, dataset and table all joined by dots
output_location_dotted(destination) ==
    <<98, 113, 58, 47, 47>> \o destination.project \o <<46>>
        \o destination.dataset_id \o <<46>> \o destination.table_id

\* line 78
output_location(destination) ==
    <<98, 113, 58, 47, 47>> \o destination.project \o <<58>>
        \o destination.dataset_id \o <<46>> \o destination.table_id

\* outputs that fall back to an empty map when the job has no destination
results_defaulting(k) ==
    IF ~jobs[k].has_destination
    THEN Return([t |-> "LiteralMap", literals |-> <<>>])
    ELSE Return([t |-> "LiteralMap",
                 literals |-> [results |->
                     [structured_dataset |->
                        [uri |-> output_location(Destination(k)), format |-> <<>>]]]])

\* lines 77-88: a job without destination has job.destination None
results(k) ==
    IF ~jobs[k].has_destination THEN Raise("AttributeError")
    ELSE Return([t |-> "LiteralMap",
                 literals |-> [results |->
                     [structured_dataset |->
                        [uri |-> output_location(Destination(k)), format |-> <<>>]]]])

\* res.to_flyte_idl() of line 90
to_flyte_idl(res) == IF res.t = "None" THEN Raise("AttributeError") ELSE Return(res)

\* a get that cancels the job it finds unfinished
get_cancelling(resource_meta) ==
    LET client == << [op |-> "Client"] >>
        metadata == get_metadata(resource_meta)
        found == IF metadata.ok THEN Lookup(metadata.value.job_id) ELSE {}
    IN IF found = {}
       THEN [result |-> Raise("NotFound"), at |-> 72, backend |-> client, jobs |-> jobs]
       ELSE LET k == First(found) IN
            [result |-> Return([state |-> convert_to_flyte_state(jobs[k].state),
                                outputs |-> None]),
             at |-> 0,
             backend |-> client \o << [op |-> "get_job", job_id |-> metadata.value.job_id],
                                      [op |-> "cancel_job", job_id |-> metadata.value.job_id] >>,
             jobs |-> [jobs EXCEPT ![k] = [@ EXCEPT !.cancel_requested =
                                              jobs[k].state \notin {"DONE", "FAILED"}]]]

\* get, lines 69-90; the only backend calls are the client's construction
\* and client.get_job, which leave the backend's jobs as they are
get(resource_meta) ==
    LET client == << [op |-> "Client"] >>
        metadata == get_metadata(resource_meta)
    IN IF ~metadata.ok THEN [result |-> metadata, at |-> 71, backend |-> client, jobs |-> jobs]
       ELSE LET calls == client \o << [op |-> "get_job", job_id |-> metadata.value.job_id] >>
                job == get_job(metadata.value.job_id)
            IN IF ~job.ok THEN [result |-> job, at |-> 72, backend |-> calls,
                                jobs |-> jobs]
               ELSE LET k == job.value
                        cur_state == convert_to_flyte_state(jobs[k].state)
                        res == IF cur_state = SUCCEEDED THEN results(k) ELSE Return(None)
                    IN IF ~res.ok THEN [result |-> res, at |-> 78, backend |-> calls,
                                        jobs |-> jobs]
                       ELSE LET outputs == to_flyte_idl(res.value) IN
                            IF ~outputs.ok
                            THEN [result |-> outputs, at |-> 90, backend |-> calls,
                                  jobs |-> jobs]
                            ELSE [result |-> Return([state |-> cur_state,
                                                     outputs |-> outputs.value]),
                                  at |-> 0, backend |-> calls, jobs |-> jobs]

(* -------------------------------- delete ------------------------------- *)
\* line 94: Metadata(**json.loads(resource_meta.decode("utf-8")))
delete_metadata(resource_meta) ==
    LET text == utf8_decode(resource_meta) IN
    IF ~text.ok THEN text
    ELSE LET x == json_loads(text.value) IN
         IF ~x.ok THEN x ELSE MetadataFromKwargs(x.value)

\* what client.cancel_job does to a job: a finished job is left as it is
cancel_job(job) ==
    IF job.state \in BackendTerminal THEN job ELSE [job EXCEPT !.cancel_requested = TRUE]

\* delete, lines 92-96
delete(resource_meta) ==
    LET client == << [op |-> "Client"] >>
        metadata == delete_metadata(resource_meta)
    IN IF ~metadata.ok
       THEN [result |-> metadata, at |-> 94, backend |-> client, jobs |-> jobs]
       ELSE LET calls == client \o << [op |-> "cancel_job", job_id |-> metadata.value.job_id] >>
                found == Lookup(metadata.value.job_id)
            IN IF found = {}
               THEN [result |-> Raise("NotFound"), at |-> 95, backend |-> calls, jobs |-> jobs]
               ELSE LET k == CHOOSE k \in found : TRUE IN
                    [result |-> Return([t |-> "DeleteTaskResponse"]), at |-> 0,
                     backend |-> calls,
                     jobs |-> [jobs EXCEPT ![k] = cancel_job(jobs[k])]]

(* ------------------- pyflyte build (clis/sdk_in_container/build.py) ---- *)
\* the keys build.py imports; they differ from the parameter names
RUN_LEVEL_PARAMS_KEY == "run_level_params"
CTX_PROJECT_ROOT == "project_root"
CTX_MODULE == "module"

BoolV(b) == [t |-> "bool", v |-> b]
PathV(p) == [t |-> "path", v |-> p]
TextV(s) == [t |-> "text", v |-> s]

\* a dict here is a function from its keys; a dict held as a value is
\* either a dict of its own or the very object ctx.params (line 145 stores
\* the object, not a copy)
EmptyDict == [k \in {} |-> None]
DictObj(d) == [t |-> "dict", d |-> d]
ParamsRef == [t |-> "ref", to |-> "ctx.params"]

\* d.get(key)
dict_get(d, key) == IF key \in DOMAIN d THEN d[key] ELSE None
\* d[key] = val
dict_set(d, key, val) ==
    [k \in DOMAIN d \cup {key} |-> IF k = key THEN val ELSE d[k]]

\* Python's truth value of the values met here
truthy(x) ==
    CASE x.t = "None" -> FALSE
      [] x.t = "bool" -> x.v
      [] x.t = "dict" -> DOMAIN x.d # {}
      [] OTHER -> TRUE

\* what click hands the build group: the parsed --fast flag (lines 43-55,
\* the group's only parameter), the context object of the parent command,
\* and the file named on the command line, as the components of its path
\* relative to the working directory
ContextObjects ==
    { None,
      DictObj(EmptyDict),
      DictObj([k \in {"pkgs"} |-> None]),
      DictObj([k \in {RUN_LEVEL_PARAMS_KEY} |->
                 DictObj([j \in {"fast", "project"} |->
                            IF j = "fast" THEN BoolV(TRUE) ELSE TextV("stale")])]),
      DictObj([k \in {RUN_LEVEL_PARAMS_KEY} |->
                 DictObj([j \in {"fast", "domain"} |->
                            IF j = "fast" THEN BoolV(FALSE) ELSE TextV("stale")])]) }

Filenames == { <<"wf.py">>, <<"pkg", "wf.py">>, <<"..", "wf.py">>, <<"..wf.py">> }

\* _find_project_root walks up from the file: some ancestor directory
ProjectRoots == {"cwd", "cwd/pkg", "cwd/.."}

\* the entities load_naive_entity can load from the module; any other name
\* fails to load
Entities == {"wf", "t1"}
EntityNames == Entities \cup {"absent"}

Invocation(fast, obj, filename) ==
    [pc |-> "BuildCommand", fast |-> fast, params |-> [k \in {"fast"} |-> BoolV(fast)],
     obj |-> obj, filename |-> filename, project_root |-> None, entity |-> None,
     serialized |-> <<>>, error |-> "none", at |-> 0]

\* no build command is running
NotInvoked == [Invocation(FALSE, None, <<>>) EXCEPT !.pc = "none"]

\* BuildCommand.get_command, lines 143-146
BuildCommand_get_command(c) ==
    IF truthy(c.obj)
    THEN [c EXCEPT !.obj = DictObj(dict_set(c.obj.d, RUN_LEVEL_PARAMS_KEY, ParamsRef)),
                   !.pc = "WorkflowCommand"]
    ELSE [c EXCEPT !.pc = "WorkflowCommand"]

\* ctx.obj[RUN_LEVEL_PARAMS_KEY], the dict found under the key
run_level_params(c) ==
    IF c.obj.t # "dict" THEN Raise("TypeError")
    ELSE IF RUN_LEVEL_PARAMS_KEY \notin DOMAIN c.obj.d THEN Raise("KeyError")
    ELSE IF c.obj.d[RUN_LEVEL_PARAMS_KEY].t = "ref" THEN Return(c.params)
    ELSE Return(c.obj.d[RUN_LEVEL_PARAMS_KEY].d)

\* ctx.obj[RUN_LEVEL_PARAMS_KEY][key] = val writes into that same dict
run_level_store(c, key, val) ==
    IF c.obj.d[RUN_LEVEL_PARAMS_KEY].t = "ref"
    THEN [c EXCEPT !.params = dict_set(@, key, val)]
    ELSE [c EXCEPT !.obj = DictObj(dict_set(c.obj.d, RUN_LEVEL_PARAMS_KEY,
              DictObj(dict_set(c.obj.d[RUN_LEVEL_PARAMS_KEY].d, key, val))))]

Failed(c, e, line) == [c EXCEPT !.pc = "failed", !.error = e, !.at = line]

\* line 109: rel_path.startswith("..")
startswith_dotdot(filename) == filename[1] \in {"..", "..wf.py"}

\* WorkflowCommand.get_command, lines 98-128; project_root is what
\* _find_project_root returns, exe_entity the name given on the command line
WorkflowCommand_get_command(c, project_root, exe_entity) ==
    IF startswith_dotdot(c.filename) THEN Failed(c, "ValueError", 110)
    ELSE IF ~run_level_params(c).ok THEN Failed(c, run_level_params(c).error, 118)
    ELSE IF exe_entity \notin Entities
    THEN Failed(run_level_store(run_level_store(c, CTX_PROJECT_ROOT, PathV(project_root)),
                                CTX_MODULE, [t |-> "module", of |-> c.filename]),
                "LoadError", 121)
    ELSE [run_level_store(run_level_store(c, CTX_PROJECT_ROOT, PathV(project_root)),
                          CTX_MODULE, [t |-> "module", of |-> c.filename])
            EXCEPT !.project_root = PathV(project_root),
                   !.entity = [t |-> "entity", name |-> exe_entity],
                   !.pc = "callback"]

\* lines 72-78: the settings _build makes from the run-level parameters p
serialization_settings(p) ==
    [project |-> dict_get(p, "project"), domain |-> dict_get(p, "domain"),
     image_config |-> "auto_default_image",
     source_root |-> IF ~truthy(dict_get(p, "fast"))
                     THEN dict_get(p, CTX_PROJECT_ROOT) ELSE None]

\* lines 65-69
options(p) ==
    IF truthy(dict_get(p, "service_account"))
    THEN [t |-> "Options", k8s_service_account |-> dict_get(p, "service_account")]
    ELSE None

\* a callback that gives the settings a source root whatever --fast says
build_command_rooted(c) ==
    [c EXCEPT !.serialized = Append(@,
                 [settings |-> [serialization_settings(run_level_params(c).value)
                                  EXCEPT !.source_root =
                                     dict_get(run_level_params(c).value, CTX_PROJECT_ROOT)],
                  entity |-> c.entity,
                  options |-> options(run_level_params(c).value)]),
               !.pc = "done"]

\* the callback _build that build_command returns, lines 63-80: one call of
\* get_serializable
build_command(c) ==
    IF ~run_level_params(c).ok THEN Failed(c, run_level_params(c).error, 66)
    ELSE [c EXCEPT !.serialized = Append(@,
                     [settings |-> serialization_settings(run_level_params(c).value),
                      entity |-> c.entity,
                      options |-> options(run_level_params(c).value)]),
                   !.pc = "done"]

(* ------------------------------- actions ------------------------------- *)
NotObserved == [state |-> "none", phase |-> 0]

Idle == [op |-> "none", arg |-> <<>>, backend |-> <<>>, at |-> 0, result |-> Return(None),
         changed |-> FALSE, replica |-> "none", prior |-> <<>>]

\* AgentRegistry.register(agent), line 99: the table holds the agent under
\* its task type
register(table, agent) ==
    [t \in DOMAIN table \cup {agent.task_type} |->
        IF t = agent.task_type THEN agent ELSE table[t]]

\* the state once the plugin module is loaded: the agent is constructed and
\* registered, no job is submitted
Init ==
    /\ jobs = [k \in JobIds |-> NoJob]
    /\ issued = {}
    /\ observed = [k \in JobIds |-> NotObserved]
    /\ last = Idle
    /\ agents = [r \in Replicas |-> BigQueryAgent]
    /\ registry = register(<<>>, BigQueryAgent)
    /\ cli = NotInvoked

\* a call is served by the first replica
Fresh(r) == last = Idle /\ r = "serving"

\* the caller repeats the call just answered, and the other replica serves it
Repeat(op, r) == last.op = op /\ last.replica = "serving" /\ r = "restarted"

\* the outcome of the call that the next one repeats
Prior ==
    IF last = Idle THEN <<>>
    ELSE << [result |-> last.result, at |-> last.at, changed |-> last.changed] >>

\* what a create call that had the outcome res leaves behind.  The
\* backend's answer (refusal, hasDest) is drawn only for a call that
\* reaches the backend
Created(hasInputs, interface, refusal, r, res) ==
    /\ res.backend = <<>> => refusal = "None"
    /\ jobs' = res.jobs
    /\ issued' = res.issued
    /\ last' = [op |-> "create",
                arg |-> [hasInputs |-> hasInputs, interface |-> interface,
                         refusal |-> refusal],
                backend |-> res.backend, at |-> res.at, result |-> res.result,
                changed |-> res.jobs # jobs, replica |-> r, prior |-> Prior]
    /\ UNCHANGED <<observed, agents, registry, cli>>

\* a create is repeated, with the same template, after it failed; a call
\* without inputs never reads the interface, and is tried with interfaces
\* of at most one input
Create(hasInputs, interface, refusal, hasDest, r) ==
    /\ \/ Fresh(r)
       \/ /\ Repeat("create", r)
          /\ ~last.result.ok
          /\ last.arg.hasInputs = hasInputs
          /\ last.arg.interface = interface
    /\ ~hasInputs => Len(interface) <= 1
    /\ refusal = "None" => FreeIds # {}
    /\ refusal # "None" => ~hasDest
    /\ Created(hasInputs, interface, refusal, r,
               create(hasInputs, interface, refusal, hasDest))

\* the job whose token tok is, 0 for any other byte string
TokenJob(tok) == First({k \in JobIds : resource_meta_of(k) = tok})

\* a get whose instance keeps the outcome it last returned
Get_caching(tok, r) ==
    LET res == get(tok)
        k == TokenJob(tok)
    IN
    /\ Fresh(r) \/ (Repeat("get", r) /\ last.arg = tok)
    /\ last' = [op |-> "get", arg |-> tok, backend |-> res.backend, at |-> res.at,
                result |-> res.result, changed |-> FALSE, replica |-> r,
                prior |-> Prior]
    /\ observed' =
         IF k = 0 \/ observed[k].phase \notin {0, 2} THEN observed
         ELSE IF observed[k].phase = 2 THEN [observed EXCEPT ![k].phase = 3]
         ELSE IF res.result.ok /\ res.result.value.state \in {"SUCCEEDED", "FAILED"}
         THEN [observed EXCEPT ![k] = [state |-> res.result.value.state, phase |-> 1]]
         ELSE observed
    /\ jobs' = res.jobs
    /\ agents' = [agents EXCEPT ![r] =
                    [task_type |-> agents[r].task_type, cached |-> res.at]]
    /\ UNCHANGED <<issued, registry, cli>>

\* what a get call that had the outcome res leaves behind; k is the job of
\* the token.  observed keeps the first terminal state a get returned for
\* the token (phase 1), whether a delete of that token followed (phase 2)
\* and a further get after that (phase 3)
Got(tok, r, k, res) ==
    /\ last' = [op |-> "get", arg |-> tok, backend |-> res.backend, at |-> res.at,
                result |-> res.result, changed |-> FALSE, replica |-> r,
                prior |-> Prior]
    /\ observed' =
         IF k = 0 THEN observed
         ELSE IF observed[k].phase = 0
         THEN IF res.result.ok /\ res.result.value.state \in {"SUCCEEDED", "FAILED"}
              THEN [observed EXCEPT ![k] = [state |-> res.result.value.state, phase |-> 1]]
              ELSE observed
         ELSE IF observed[k].phase = 2
              THEN [observed EXCEPT ![k].phase = 3]
              ELSE observed
    /\ jobs' = res.jobs
    /\ UNCHANGED <<issued, agents, registry, cli>>

Get(tok, r) ==
    /\ Fresh(r) \/ (Repeat("get", r) /\ last.arg = tok)
    /\ Got(tok, r, TokenJob(tok), get(tok))

\* a delete that takes the agent out of the table
Delete_unregistering(tok, r) ==
    LET res == delete(tok)
        k == TokenJob(tok)
    IN
    /\ Fresh(r) \/ (Repeat("delete", r) /\ last.arg = tok)
    /\ jobs' = res.jobs
    /\ last' = [op |-> "delete", arg |-> tok, backend |-> res.backend, at |-> res.at,
                result |-> res.result, changed |-> res.jobs # jobs, replica |-> r,
                prior |-> Prior]
    /\ observed' = IF k # 0 /\ observed[k].phase = 1
                   THEN [observed EXCEPT ![k].phase = 2]
                   ELSE observed
    /\ registry' = <<>>
    /\ UNCHANGED <<issued, agents, cli>>

\* what a delete call that had the outcome res leaves behind
Deleted(tok, r, k, res) ==
    /\ jobs' = res.jobs
    /\ last' = [op |-> "delete", arg |-> tok, backend |-> res.backend, at |-> res.at,
                result |-> res.result, changed |-> res.jobs # jobs, replica |-> r,
                prior |-> Prior]
    /\ observed' = IF k # 0 /\ observed[k].phase = 1
                   THEN [observed EXCEPT ![k].phase = 2]
                   ELSE observed
    /\ UNCHANGED <<issued, agents, registry, cli>>

Delete(tok, r) ==
    /\ Fresh(r) \/ (Repeat("delete", r) /\ last.arg = tok)
    /\ Deleted(tok, r, TokenJob(tok), delete(tok))

\* the backend moves a job on; a finished job stays as it is and has no
\* cancellation pending
BackendNext(state) ==
    CASE state = "PENDING" -> {"RUNNING", "UNKNOWN_EXOTIC"}
      [] state = "RUNNING" -> {"DONE", "FAILED", "UNKNOWN_EXOTIC"}
      [] state = "UNKNOWN_EXOTIC" -> {"RUNNING", "DONE", "FAILED"}
      [] OTHER -> {}

BackendStep(k) ==
    /\ last = Idle
    /\ jobs[k].exists
    /\ \E s \in BackendNext(jobs[k].state) :
         jobs' = [jobs EXCEPT ![k].state = s,
                              ![k].cancel_requested = @ /\ s \notin BackendTerminal]
    /\ UNCHANGED <<issued, observed, last, agents, registry, cli>>

\* the caller receives the answer
Respond ==
    /\ last # Idle
    /\ last' = Idle
    /\ UNCHANGED <<jobs, issued, observed, agents, registry, cli>>

\* the backend honours a requested cancellation
BackendCancel(k) ==
    /\ last = Idle
    /\ jobs[k].exists
    /\ jobs[k].cancel_requested
    /\ jobs[k].state \notin BackendTerminal
    /\ jobs' = [jobs EXCEPT ![k].state = "FAILED", ![k].cancel_requested = FALSE]
    /\ UNCHANGED <<issued, observed, last, agents, registry, cli>>

\* the arguments and the replica of the calls that can come next: any for a
\* first call, those of the call being answered for its repeat
InterfacesNow ==
    IF last = Idle THEN Interfaces
    ELSE IF last.op = "create" THEN {last.arg.interface} ELSE {}

TokensNow(op) ==
    IF last = Idle THEN Tokens ELSE IF last.op = op THEN {last.arg} ELSE {}

ReplicasNow == IF last = Idle THEN {"serving"} ELSE {"restarted"}

Next ==
    \/ \E interface \in InterfacesNow, hasInputs \in BOOLEAN,
          refusal \in SubmitErrors \cup {"None"}, hasDest \in BOOLEAN,
          r \in ReplicasNow :
            Create(hasInputs, interface, refusal, hasDest, r)
    \/ \E tok \in TokensNow("get"), r \in ReplicasNow : Get(tok, r)
    \/ \E tok \in TokensNow("delete"), r \in ReplicasNow : Delete(tok, r)
    \/ \E k \in JobIds : BackendStep(k)
    \/ \E k \in JobIds : BackendCancel(k)
    \/ Respond

Spec == Init /\ [][Next]_vars

(* --------------------------- pyflyte build ----------------------------- *)
\* one run of `pyflyte build [--fast] FILE ENTITY`: click resolves the file
\* with BuildCommand.get_command, the entity with
\* WorkflowCommand.get_command, then invokes the command's callback
BuildInit ==
    /\ jobs = [k \in JobIds |-> NoJob]
    /\ issued = {}
    /\ observed = [k \in JobIds |-> NotObserved]
    /\ last = Idle
    /\ agents = [r \in Replicas |-> BigQueryAgent]
    /\ registry = register(<<>>, BigQueryAgent)
    /\ cli \in {Invocation(fast, obj, filename) :
                  fast \in BOOLEAN, obj \in ContextObjects, filename \in Filenames}

ResolveFile ==
    /\ cli.pc = "BuildCommand"
    /\ cli' = BuildCommand_get_command(cli)
    /\ UNCHANGED <<jobs, issued, observed, last, agents, registry>>

ResolveEntity(project_root, exe_entity) ==
    /\ cli.pc = "WorkflowCommand"
    /\ cli' = WorkflowCommand_get_command(cli, project_root, exe_entity)
    /\ UNCHANGED <<jobs, issued, observed, last, agents, registry>>

InvokeCallback ==
    /\ cli.pc = "callback"
    /\ cli' = build_command(cli)
    /\ UNCHANGED <<jobs, issued, observed, last, agents, registry>>

BuildNext ==
    \/ ResolveFile
    \/ \E project_root \in ProjectRoots, exe_entity \in EntityNames :
          ResolveEntity(project_root, exe_entity)
    \/ InvokeCallback

BuildSpec == BuildInit /\ [][BuildNext]_vars

(* ------------------------- reading the call record --------------------- *)
\* the tokens create has returned
IssuedTokens == {i.resource_meta : i \in issued}

\* the job create embedded in an issued token
JobOf(tok) == (CHOOSE i \in issued : i.resource_meta = tok).job

\* a byte string is a well-formed token when the codec of create and get
\* reads a Metadata record from it
WellFormed(tok) == get_metadata(tok).ok

\* the backend jobs a call asked about or asked to cancel
Touched(call) ==
    {call.backend[j].job_id : j \in {n \in DOMAIN call.backend :
                                        call.backend[n].op \in {"get_job", "cancel_job"}}}

CountOps(call, op) == Cardinality({j \in DOMAIN call.backend : call.backend[j].op = op})

AgentStates == {"QUEUED", "RUNNING", "SUCCEEDED", "FAILED"}

(* -------------------------------- claims ------------------------------- *)

\* C1: delete(M), for a token M returned by create, decodes M to the job
\* identifier create embedded, asks the backend to cancel exactly that job
\* and returns a DeleteTaskResponse without error, whatever the job's status.
C1_DeleteOfIssuedToken ==
    (last.op = "delete" /\ last.arg \in IssuedTokens) =>
        /\ last.result.ok
        /\ last.result.value.t = "DeleteTaskResponse"
        /\ Touched(last) = {StrV(JobIdStr(JobOf(last.arg)))}
        /\ CountOps(last, "cancel_job") = 1

\* C2: get(M) answers with a state, and with outputs exactly when that state
\* is SUCCEEDED: a QUEUED, RUNNING or FAILED job gives that state and no
\* outputs, a successful job (with a destination) gives SUCCEEDED with outputs.
C2_OutputsIffSucceeded ==
    (last.op = "get" /\ last.arg \in IssuedTokens) =>
        LET job == jobs[JobOf(last.arg)] IN
        /\ job.state \in {"PENDING", "RUNNING", "FAILED"} =>
             /\ last.result.ok
             /\ last.result.value.state = convert_to_flyte_state(job.state)
             /\ last.result.value.state # SUCCEEDED
             /\ last.result.value.outputs.t = "None"
        /\ (job.state = "DONE" /\ job.has_destination) =>
             /\ last.result.ok
             /\ last.result.value.state = SUCCEEDED
             /\ last.result.value.outputs.t = "LiteralMap"

\* C3: for a backend status outside the documented domain, get answers
\* RUNNING (no error, no terminal state); every documented status maps to
\* one of the four generic states.
C3_UnknownStatusIsRunning ==
    /\ \A s \in BackendStatusDomain : convert_to_flyte_state(s) \in AgentStates
    /\ (/\ last.op = "get"
        /\ last.arg \in IssuedTokens
        /\ jobs[JobOf(last.arg)].state \notin BackendStatusDomain) =>
           /\ last.result.ok
           /\ last.result.value.state = "RUNNING"

\* C4: once a get has returned SUCCEEDED or FAILED for a token, every later
\* get of that token returns that same state, whatever get and delete calls
\* come in between (a finished backend job keeps its status).
C4_TerminalObservationRepeats ==
    (/\ last.op = "get"
     /\ TokenJob(last.arg) # 0
     /\ observed[TokenJob(last.arg)].phase >= 1) =>
        /\ last.result.ok
        /\ last.result.value.state = observed[TokenJob(last.arg)].state

\* a get answering a token that was seen finished before, with a delete of
\* the same token in between
C4_Witness ==
    /\ last.op = "get"
    /\ last.arg \in IssuedTokens
    /\ observed[JobOf(last.arg)].phase = 3
    /\ last.result.ok
    /\ last.result.value.state = SUCCEEDED

\* the locator of job k's destination, written out: bq://p:d.t<k>
LocatorOf(k) == <<98, 113, 58, 47, 47, 112, 58, 100, 46, 116, 48 + k>>

Supported(interface) ==
    \A p \in DOMAIN interface :
        guess_python_type(interface[p]) \in DOMAIN pythonTypeToBigQueryType

\* C5: a create with inputs that the backend accepts returns a token for
\* the job submitted; once that job is successful (and has a destination),
\* get of the token returns SUCCEEDED with outputs holding exactly the key
\* "results", whose value wraps the locator of that job's own destination.
C5_SuccessPath ==
    /\ (/\ last.op = "create"
        /\ last.arg.hasInputs
        /\ Supported(last.arg.interface)
        /\ last.arg.refusal = "None") =>
           /\ last.result.ok
           /\ last.result.value.resource_meta \in IssuedTokens
           /\ jobs[JobOf(last.result.value.resource_meta)].exists
    /\ (/\ last.op = "get"
        /\ last.arg \in IssuedTokens
        /\ jobs[JobOf(last.arg)].state = "DONE"
        /\ jobs[JobOf(last.arg)].has_destination) =>
           /\ last.result.ok
           /\ last.result.value.state = SUCCEEDED
           /\ last.result.value.outputs.t = "LiteralMap"
           /\ DOMAIN last.result.value.outputs.literals = {"results"}
           /\ last.result.value.outputs.literals.results.structured_dataset.uri
                = LocatorOf(JobOf(last.arg))

\* get answers for a successful job while another job is successful too
C5_Witness ==
    /\ last.op = "get"
    /\ last.arg \in IssuedTokens
    /\ last.result.ok
    /\ last.result.value.state = SUCCEEDED
    /\ \E j \in JobIds :
         /\ j # JobOf(last.arg)
         /\ jobs[j].exists /\ jobs[j].state = "DONE" /\ jobs[j].has_destination

\* identifiers of the lengths at which msgpack changes the form of a text
SampleIds == {[i \in 1..n |-> 97] : n \in {0, 1, 31, 32, 255, 256}}

\* C6: decoding the bytes that encode a Metadata record gives that record
\* back, for every job identifier; the identifier get reads from a token is
\* the one create wrote into it.
C6_CodecRoundTrip ==
    /\ \A id \in SampleIds \cup {JobIdStr(k) : k \in JobIds} :
         get_metadata(packb(asdict(Metadata(StrV(id))))) = Return(Metadata(StrV(id)))
    /\ (last.op = "create" /\ last.result.ok) =>
         /\ last.result.value.resource_meta \in IssuedTokens
         /\ get_metadata(last.result.value.resource_meta)
              = Return(Metadata(StrV(JobIdStr(JobOf(last.result.value.resource_meta)))))
    /\ (last.op = "get" /\ last.arg \in IssuedTokens) =>
         /\ last.at # 71
         /\ Touched(last) = {StrV(JobIdStr(JobOf(last.arg)))}

\* get has read the identifier of a token whose identifier is too long for
\* a fixstr
C6_Witness ==
    /\ last.op = "get"
    /\ last.arg \in IssuedTokens
    /\ Len(JobIdStr(JobOf(last.arg))) > 31
    /\ Touched(last) = {StrV(JobIdStr(JobOf(last.arg)))}

\* C7: for a byte string that is no well-formed token, get and delete fail
\* with a decoding error and neither asks the backend about a job nor
\* cancels one.
C7_MalformedTokenRejected ==
    (last.op \in {"get", "delete"} /\ ~WellFormed(last.arg)) =>
        /\ ~last.result.ok
        /\ last.at = (IF last.op = "get" THEN 71 ELSE 94)
        /\ Touched(last) = {}

\* C8: when the backend refuses the submission, create fails with the
\* backend's error, returns no token, and has called client.query once.
C8_SubmissionFailure ==
    (/\ last.op = "create"
     /\ last.arg.refusal # "None"
     /\ (last.arg.hasInputs => Supported(last.arg.interface))) =>
        /\ ~last.result.ok
        /\ last.result.error = last.arg.refusal
        /\ last.at = 65
        /\ CountOps(last, "query") = 1

\* a create with inputs was refused by the backend
C8_Witness ==
    /\ last.op = "create"
    /\ last.arg.hasInputs
    /\ Len(last.arg.interface) > 0
    /\ last.arg.refusal = "Forbidden"
    /\ last.at = 65

\* C9: a create with an input whose declared type has no BigQuery type
\* fails without any backend call and without submitting a job, wherever
\* that input stands among the inputs.
C9_UnsupportedTypeFailsFast ==
    [][(/\ last' # last
        /\ last'.op = "create"
        /\ last'.arg.hasInputs
        /\ ~Supported(last'.arg.interface)) =>
           /\ ~last'.result.ok
           /\ last'.backend = <<>>
           /\ jobs' = jobs
           /\ issued' = issued]_vars

\* a create failed on an unsupported second input after a supported first
\* one, with a backend that would have accepted the job
C9_Witness ==
    /\ last.op = "create"
    /\ last.arg.hasInputs
    /\ Len(last.arg.interface) >= 2
    /\ Supported(SubSeq(last.arg.interface, 1, 1))
    /\ ~Supported(SubSeq(last.arg.interface, 2, 2))
    /\ last.arg.refusal = "None"
    /\ ~last.result.ok
    /\ last.at = 58

\* the backend has a job of this identifier
Known(job_id) == \E k \in JobIds : jobs[k].exists /\ job_id = StrV(JobIdStr(k))

\* C10: get or delete with a token that decodes to an identifier the
\* backend does not know fails with an error; no job changes and no other
\* job is asked about or cancelled in its place.
C10_UnknownJobFails ==
    [][(/\ last' # last
        /\ \/ /\ last'.op \in {"get", "delete"}
              /\ WellFormed(last'.arg)
              /\ ~Known(get_metadata(last'.arg).value.job_id)
           \/ /\ last'.op = "delete"
              /\ delete_metadata(last'.arg).ok
              /\ ~Known(delete_metadata(last'.arg).value.job_id)) =>
           /\ ~last'.result.ok
           /\ jobs' = jobs
           /\ \A id \in Touched(last') : ~Known(id)]_vars

\* get failed on a token of an unknown job while the backend has another job
C10_Witness ==
    /\ last.op = "get"
    /\ WellFormed(last.arg)
    /\ ~Known(get_metadata(last.arg).value.job_id)
    /\ \E k \in JobIds : jobs[k].exists
    /\ ~last.result.ok
    /\ last.at = 72

\* the jobs the backend has
ExistingJobs(js) == {k \in JobIds : js[k].exists}

\* C11: every successful create returns a token no earlier create returned,
\* and the token identifies a job the backend did not have before the call;
\* so any two successful creates return distinct tokens of distinct jobs,
\* also when the create repeats one that failed.
C11_CreatesAreDistinct ==
    [][(/\ last' # last
        /\ last'.op = "create"
        /\ last'.result.ok) =>
           LET tok == last'.result.value.resource_meta IN
           /\ tok \notin IssuedTokens
           /\ WellFormed(tok)
           /\ ~Known(get_metadata(tok).value.job_id)
           /\ \E k \in ExistingJobs(jobs') \ ExistingJobs(jobs) :
                 /\ get_metadata(tok).value.job_id = StrV(JobIdStr(k))
                 /\ ExistingJobs(jobs') = ExistingJobs(jobs) \cup {k}
           /\ CountOps(last', "query") = 1
           /\ \A i, j \in issued' :
                 (i.resource_meta = j.resource_meta) <=> (i.job = j.job)]_vars

\* a create that repeats a failed one, with the same template, succeeded
\* after an earlier successful create
C11_Witness ==
    /\ last.op = "create"
    /\ last.result.ok
    /\ last.replica = "restarted"
    /\ last.prior # <<>>
    /\ ~last.prior[1].result.ok
    /\ Cardinality(issued) >= 2
    /\ Cardinality(ExistingJobs(jobs)) >= 2

\* C12: a get step, whether it returns a state or raises, leaves every
\* backend job as it was, submits none and cancels none: its only backend
\* calls are the client's construction and get_job.
C12_GetIsReadOnly ==
    [][(last' # last /\ last'.op = "get") =>
           /\ jobs' = jobs
           /\ issued' = issued
           /\ CountOps(last', "query") = 0
           /\ CountOps(last', "cancel_job") = 0
           /\ CountOps(last', "get_job") <= 1]_vars

\* a second get in a row raised on a running job that has a cancellation
\* pending, while the backend has another job
C12_Witness ==
    /\ last.op = "get"
    /\ last.replica = "restarted"
    /\ ~last.result.ok
    /\ last.at = 90
    /\ last.arg \in IssuedTokens
    /\ jobs[JobOf(last.arg)].state = "RUNNING"
    /\ jobs[JobOf(last.arg)].cancel_requested
    /\ Cardinality(ExistingJobs(jobs)) >= 2

\* C13: get of the token of a job the backend reports successful but that
\* has no destination raises while it builds the result locator; it returns
\* no state at all, so neither FAILED nor SUCCEEDED with empty outputs.
C13_UnresolvedOutputFails ==
    (/\ last.op = "get"
     /\ last.arg \in IssuedTokens
     /\ jobs[JobOf(last.arg)].state = "DONE"
     /\ ~jobs[JobOf(last.arg)].has_destination) =>
        /\ ~last.result.ok
        /\ last.result.error = "AttributeError"
        /\ last.at = 78
        /\ CountOps(last, "get_job") = 1

\* a get raised on a successful job without destination
C13_Witness ==
    /\ last.op = "get"
    /\ last.arg \in IssuedTokens
    /\ jobs[JobOf(last.arg)].state = "DONE"
    /\ ~jobs[JobOf(last.arg)].has_destination
    /\ ~last.result.ok
    /\ last.replica = "serving"

C15_PollingReachesTerminal ==
    (/\ last.op = "get"
     /\ last.arg \in IssuedTokens
     /\ jobs[JobOf(last.arg)].state \in BackendStatusDomain
     /\ jobs[JobOf(last.arg)].state = "DONE" => jobs[JobOf(last.arg)].has_destination) =>
        /\ last.result.ok
        /\ jobs[JobOf(last.arg)].state \in {"PENDING", "RUNNING"} <=>
              last.result.value.state \in {"QUEUED", "RUNNING"}
        /\ jobs[JobOf(last.arg)].state = "DONE" <=> last.result.value.state = "SUCCEEDED"
        /\ jobs[JobOf(last.arg)].state = "FAILED" <=> last.result.value.state = "FAILED"

\* C16: from the load of the plugin module on, before and after every
\* create, get and delete, the registry has exactly one entry, which maps
\* the task type "bigquery_query_job_task" to the BigQuery agent.
C16_RegistryIsFixed ==
    /\ DOMAIN registry = {"bigquery_query_job_task"}
    /\ registry["bigquery_query_job_task"] = BigQueryAgent
    /\ \A r \in Replicas : registry["bigquery_query_job_task"] = agents[r]

\* the registry still maps the task type after a create, a get that
\* returned a terminal state and a delete of the same token
C16_Witness ==
    /\ last.op = "delete"
    /\ last.result.ok
    /\ \E k \in JobIds : jobs[k].exists /\ observed[k].phase = 2
    /\ "bigquery_query_job_task" \in DOMAIN registry

\* C17: nothing is serialized before the build callback runs; once it has
\* run, the entity loaded by WorkflowCommand.get_command has been serialized
\* exactly once, with the project and domain of the run-level parameters,
\* and with source_root the recorded project root when --fast was not
\* given and unset when it was.
C17_SourceRootIffNotFast ==
    /\ cli.pc # "done" => cli.serialized = <<>>
    /\ cli.pc = "done" =>
         /\ Len(cli.serialized) = 1
         /\ cli.serialized[1].entity = cli.entity
         /\ cli.entity.t = "entity"
         /\ cli.project_root.t = "path"
         /\ cli.serialized[1].settings.source_root =
               (IF cli.fast THEN None ELSE cli.project_root)
         /\ cli.serialized[1].settings.project = dict_get(cli.params, "project")
         /\ cli.serialized[1].settings.domain = dict_get(cli.params, "domain")

\* a build with --fast serialized the entity of a file in a package
\* without source root, the project root being recorded
C17_Witness ==
    /\ cli.pc = "done"
    /\ cli.fast
    /\ cli.filename = <<"pkg", "wf.py">>
    /\ dict_get(cli.params, CTX_PROJECT_ROOT) = PathV("cwd/pkg")
    /\ Len(cli.serialized) = 1
    /\ cli.serialized[1].settings.source_root = None

=============================================================================
